---- MODULE Spec2Model ----
(***************************************************************************)
(* Model of the ESP32 serial OTA uploader (src/raw.py): the CRC engine,    *)
(* the acknowledgment resynchronizer (ESP32OTA.receive_ack), the handshake *)
(* and upload session (ESP32OTA.sync, ESP32OTA.upload_file), the reset     *)
(* sequence (ESP32OTA._reset_device) and the main program.                 *)
(*                                                                         *)
(* Four specifications: Spec, the run of the main program; SpecLive, the   *)
(* same run with a clock that advances; SpecAck, one receive_ack call on a *)
(* byte stream that arrives in any split; SpecCrc, crc16_xmodem alone.     *)
(*                                                                         *)
(* Bytes are integers 0..255, byte strings are sequences of bytes, text is *)
(* a sequence of Unicode code points.  Time is counted in whole seconds.   *)
(***************************************************************************)
EXTENDS Integers, Sequences, FiniteSets, TLC

(***************************************************************************)
(* Program constants (src/raw.py:12-20 and the literals of the calls).     *)
(***************************************************************************)
OTA_CMD_START == 1
OTA_CMD_DATA == 2
OTA_CMD_END == 3
OTA_CMD_VERIFY == 4
CHUNK_SIZE == 4096
\* OTA_ACK_HEADER_SEQ = b'\xAA\x55'
AckHdr0 == 170
AckHdr1 == 85
OTA_ACK_HEADER_SEQ == <<AckHdr0, AckHdr1>>
\* the polynomial and the bit tested after each shift in crc16_xmodem
CrcPoly == 4129
CrcTopBit == 65536
\* range(3) in sync()
SyncAttempts == 3
\* the timeout arguments of the four receive_ack calls, in seconds
SyncTimeout == 1
StartTimeout == 10
DataTimeout == 1
EndTimeout == 5
\* the status of the local sentinel returned at the deadline
TimeoutStatus == -1
\* U+FFFD, what decode(errors='replace') puts for an undecodable byte
ReplacementChar == 65533

(***************************************************************************)
(* Bounds of the model.                                                    *)
(***************************************************************************)
\* the file sizes tried reach MaxChunks full chunks (plus a partial one)
MaxChunks == 2
\* the longest garbage prefix put before a frame in the receive_ack inputs
MaxGarbage == 2
\* the most noise bytes that wait unread in the transport's input buffer
MaxNoise == 1
\* a reply arrives at most MaxLate commands after the command it answers
MaxLate == 1

(***************************************************************************)
(* Bit operations on naturals.                                             *)
(***************************************************************************)
RECURSIVE Xor(_, _)
Xor(a, b) ==
    IF a = 0 THEN b
    ELSE IF b = 0 THEN a
    ELSE (((a % 2) + (b % 2)) % 2) + (2 * Xor(a \div 2, b \div 2))

\* crc & bit, for a single bit given by its value (a power of two)
BitSet(x, bit) == (x \div bit) % 2 = 1

(***************************************************************************)
(* crc16_xmodem.  The Python integer is unbounded and the code masks only  *)
(* at the end; the bits above bit 16 are never read again (the loop only   *)
(* shifts left and tests bit 16), so the register is kept to 17 bits here  *)
(* after each round.                                                       *)
(***************************************************************************)
\* CrcRound that tests the top bit of the 16-bit value after the shift
CrcRoundBit15(crc) ==
    LET s == crc * 2
        x == IF BitSet(s, CrcTopBit \div 2) THEN Xor(s, CrcPoly) ELSE s
    IN  x % (2 * CrcTopBit)

CrcRound(crc) ==
    LET s == crc * 2
        x == IF BitSet(s, CrcTopBit) THEN Xor(s, CrcPoly) ELSE s
    IN  x % (2 * CrcTopBit)

\* for _ in range(8).  (The test c \in Nat makes TLC compute c before it goes
\* on, instead of stacking up unevaluated rounds.)
RECURSIVE CrcRounds(_, _)
CrcRounds(crc, n) ==
    IF n = 0 THEN crc
    ELSE LET c == CrcRound(crc) IN IF c \in Nat THEN CrcRounds(c, n - 1) ELSE c

\* crc ^= byte << 8, then the 8 rounds
CrcByte(crc, byte) == CrcRounds(Xor(crc, byte * 256), 8)

\* for byte in data
RECURSIVE CrcFold(_, _, _)
CrcFold(crc, data, k) ==
    IF k > Len(data) THEN crc
    ELSE LET c == CrcByte(crc, data[k])
         IN  IF c \in Nat THEN CrcFold(c, data, k + 1) ELSE c

crc16_xmodem(data) == CrcFold(0, data, 1) % CrcTopBit

(***************************************************************************)
(* Byte strings.                                                           *)
(***************************************************************************)
Min(a, b) == IF a < b THEN a ELSE b

\* b[n:] of Python: the sequence without its first n elements
DropFirst(b, n) == IF n >= Len(b) THEN <<>> ELSE SubSeq(b, n + 1, Len(b))

\* b[:n] of Python
TakeFirst(b, n) == SubSeq(b, 1, Min(n, Len(b)))

\* HeaderAt that looks at the first byte of the marker only
HeaderAtFirstByte(b, k) ==
    /\ k + 2 <= Len(b)
    /\ b[k + 1] = OTA_ACK_HEADER_SEQ[1]

\* does the 2-byte marker start at 0-based index k of b
HeaderAt(b, k) ==
    /\ k + 2 <= Len(b)
    /\ b[k + 1] = OTA_ACK_HEADER_SEQ[1]
    /\ b[k + 2] = OTA_ACK_HEADER_SEQ[2]

\* buffer.find(OTA_ACK_HEADER_SEQ): the lowest 0-based index, or -1
Find(b) ==
    LET hits == {k \in 0..Len(b) : HeaderAt(b, k)}
    IN  IF hits = {} THEN -1 ELSE CHOOSE k \in hits : \A j \in hits : k <= j

(***************************************************************************)
(* bytes.decode('utf-8', errors='replace'): well-formed sequences give     *)
(* their code point, every maximal ill-formed part gives one U+FFFD.       *)
(***************************************************************************)
InRange(b, lo, hi) == lo <= b /\ b <= hi

\* the range allowed for the byte that follows lead byte c
SecondLo(c) == IF c = 224 THEN 160 ELSE IF c = 240 THEN 144 ELSE 128
SecondHi(c) == IF c = 237 THEN 159 ELSE IF c = 244 THEN 143 ELSE 191

\* number of bytes the lead byte announces (0: not a lead byte)
SeqLen(c) ==
    IF c < 128 THEN 1
    ELSE IF InRange(c, 194, 223) THEN 2
    ELSE IF InRange(c, 224, 239) THEN 3
    ELSE IF InRange(c, 240, 244) THEN 4
    ELSE 0

\* decode one character at 1-based position k: [cp, n] (n bytes consumed)
Utf8Step(b, k) ==
    LET c == b[k]
        n == SeqLen(c)
        has(j) == k + j <= Len(b)
        ok2 == has(1) /\ InRange(b[k + 1], SecondLo(c), SecondHi(c))
        ok3 == ok2 /\ has(2) /\ InRange(b[k + 2], 128, 191)
        ok4 == ok3 /\ has(3) /\ InRange(b[k + 3], 128, 191)
        bad(m) == [cp |-> ReplacementChar, n |-> m]
    IN  IF n = 0 THEN bad(1)
        ELSE IF n = 1 THEN [cp |-> c, n |-> 1]
        ELSE IF ~ok2 THEN bad(1)
        ELSE IF n = 2 THEN [cp |-> (c - 192) * 64 + (b[k + 1] - 128), n |-> 2]
        ELSE IF ~ok3 THEN bad(2)
        ELSE IF n = 3
             THEN [cp |-> (c - 224) * 4096 + (b[k + 1] - 128) * 64 + (b[k + 2] - 128),
                   n |-> 3]
        ELSE IF ~ok4 THEN bad(3)
        ELSE [cp |-> (c - 240) * 262144 + (b[k + 1] - 128) * 4096
                       + (b[k + 2] - 128) * 64 + (b[k + 3] - 128),
              n |-> 4]

RECURSIVE Utf8From(_, _)
Utf8From(b, k) ==
    IF k > Len(b) THEN <<>>
    ELSE LET st == Utf8Step(b, k) IN <<st.cp>> \o Utf8From(b, k + st.n)

Utf8Decode(b) == Utf8From(b, 1)

\* str.encode('utf-8') of one code point (what the device does to its text)
Utf8Char(cp) ==
    IF cp < 128 THEN <<cp>>
    ELSE IF cp < 2048 THEN <<192 + (cp \div 64), 128 + (cp % 64)>>
    ELSE IF cp < 65536
         THEN <<224 + (cp \div 4096), 128 + ((cp \div 64) % 64), 128 + (cp % 64)>>
    ELSE <<240 + (cp \div 262144), 128 + ((cp \div 4096) % 64),
           128 + ((cp \div 64) % 64), 128 + (cp % 64)>>

RECURSIVE Utf8Encode(_)
Utf8Encode(text) ==
    IF text = <<>> THEN <<>> ELSE Utf8Char(Head(text)) \o Utf8Encode(Tail(text))

(***************************************************************************)
(* The acknowledgment frame, as receive_ack takes it apart:                *)
(* [AA 55][status:1][msg_len:1][msg:N][crc:2, big-endian].                 *)
(***************************************************************************)
\* struct.pack('>H', v)
PackU16(v) == <<v \div 256, v % 256>>

\* struct.unpack('>H', two bytes)[0]
UnpackU16(two) == two[1] * 256 + two[2]

\* the frame a device sends for (status, message bytes)
AckBytes(status, m) ==
    LET body == OTA_ACK_HEADER_SEQ \o <<status, Len(m)>> \o m
    IN  body \o PackU16(crc16_xmodem(body))

EncodeAck(status, text) == AckBytes(status, Utf8Encode(text))

(***************************************************************************)
(* State.                                                                  *)
(***************************************************************************)
VARIABLES
    pc,             \* where the main program stands
    fileExists,     \* os.path.exists(args.file)
    file_size,      \* os.path.getsize(args.file), also len(data)
    ser,            \* self.ser: "none" (None), "open", "closed"
    dtr, rts,       \* the control lines: "unset" until written, then "True"/"False"
    resetLog,       \* the steps of _reset_device performed so far
    interrupted,    \* a KeyboardInterrupt was raised in the try body
    sent,           \* the frames written to the transport, in order
    i,              \* the loop index of sync()
    syncRet,        \* what sync() returned ("True", "False"), "none" before
    upRet,          \* what upload_file() returned, "none" before
    offset,         \* upload_file: offset
    current_chunk,  \* upload_file: current_chunk
    reports,        \* the percentages written by the progress bar
    wire,           \* bytes the device has sent that have not reached the host
    rx,             \* the transport's input buffer (ser.in_waiting bytes)
    rxFor,          \* for each byte of rx, the command it answers (0: none)
    owed,           \* number of commands the device may still answer
    buffer,         \* receive_ack: buffer
    elapsed,        \* receive_ack: time.time() - start_time, in seconds
    timeout,        \* receive_ack: timeout
    ack,            \* what the last receive_ack returned
    allread,        \* every byte ser.read returned in this receive_ack call
    readFor,        \* for each byte of allread, the command it answers (0: none)
    base,           \* number of bytes of allread removed from the buffer's front
    discarded,      \* number of bytes dropped as garbage before a marker
    accPos,         \* index in allread where the returned frame starts (-1: none)
    scen,           \* the input the receive_ack specification feeds
    crcData,        \* crc16_xmodem: data
    crcK,           \* crc16_xmodem: number of bytes of data the loop has taken
    crcReg,         \* crc16_xmodem: crc
    crcRet          \* what crc16_xmodem returned, -1 before

progVars == <<pc, fileExists, file_size, ser, dtr, rts, resetLog, interrupted>>
sessVars == <<sent, i, syncRet, upRet, offset, current_chunk, reports>>
devVars == <<wire, rx, rxFor, owed>>
ackVars ==
    <<buffer, elapsed, timeout, ack, allread, readFor, base, discarded, accPos>>
crcVars == <<crcData, crcK, crcReg, crcRet>>
vars == <<progVars, sessVars, devVars, ackVars, scen, crcVars>>

NoAck == [status |-> -2, msg |-> <<>>]
\* "Timeout"
TimeoutMsg == <<84, 105, 109, 101, 111, 117, 116>>
\* "Serial not connected"
NotConnectedMsg ==
    <<83, 101, 114, 105, 97, 108, 32, 110, 111, 116, 32, 99, 111, 110, 110, 101,
      99, 116, 101, 100>>

WaitPcs == {"sync_wait", "start_wait", "data_wait", "end_wait"}
ResetPcs == {"reset_lines", "reset_assert", "reset_release", "reset_settle",
             "reset_flush"}
\* the positions inside the try block of the main program
TryPcs == {"connect", "sync", "sync_got", "upload", "start_got", "data_loop",
           "data_got", "end_got"} \cup WaitPcs \cup ResetPcs

\* where the caller continues when receive_ack returns
AfterWait(p) ==
    CASE p = "sync_wait" -> "sync_got"
      [] p = "start_wait" -> "start_got"
      [] p = "data_wait" -> "data_got"
      [] p = "end_wait" -> "end_got"

(***************************************************************************)
(* send_frame: the frame is recorded by its command, the length of its     *)
(* payload and what the payload is: for START the size it encodes, for     *)
(* DATA the offset of the chunk it carries.                                *)
(***************************************************************************)
Frame(cmd, len, arg) == [cmd |-> cmd, len |-> len, arg |-> arg]

send_frame(cmd, len, arg) ==
    IF ser = "none" THEN sent ELSE Append(sent, Frame(cmd, len, arg))

\* the written frame reaches the device, which from then on may answer it
Received(n) == IF ser = "none" THEN n ELSE Min(n + 1, MaxLate + 1)

\* receive_ack has returned and its caller has read the result: its locals
\* (and what the model records about the call) are gone
AckLeave ==
    /\ buffer' = <<>>
    /\ elapsed' = 0
    /\ timeout' = 0
    /\ allread' = <<>>
    /\ readFor' = <<>>
    /\ base' = 0
    /\ discarded' = 0
    /\ accPos' = -1

\* the first statements of receive_ack: start_time, buffer = b''
AckEnter(t, next) ==
    /\ allread' = <<>>
    /\ readFor' = <<>>
    /\ base' = 0
    /\ discarded' = 0
    /\ accPos' = -1
    /\ buffer' = <<>>
    /\ elapsed' = 0
    /\ timeout' = t
    /\ IF ser = "none"
       THEN /\ ack' = [status |-> TimeoutStatus, msg |-> NotConnectedMsg]
            /\ pc' = AfterWait(next)
       ELSE /\ ack' = NoAck
            /\ pc' = next

(***************************************************************************)
(* One iteration of the loop of receive_ack on the buffer and the bytes    *)
(* just read.                                                              *)
(***************************************************************************)
\* CrcOk that compares the low byte of the CRC only
CrcOkLowByte(frame) ==
    frame[Len(frame)] = crc16_xmodem(TakeFirst(frame, Len(frame) - 2)) % 256

\* CrcOk that accepts whatever CRC the frame carries
CrcOkAlways(frame) == Len(frame) >= 2

\* crc_recv == crc_calc
CrcOk(frame) ==
    UnpackU16(DropFirst(frame, Len(frame) - 2))
        = crc16_xmodem(TakeFirst(frame, Len(frame) - 2))

\* total_len = 2 + 1 + 1 + msg_len + 2
TotalLen(msg_len) == 2 + 1 + 1 + msg_len + 2
\* AckIter that puts the bytes just read in front of the buffer
AckIterPrepend(buf, new) ==
    LET b1 == new \o buf
        header_idx == Find(b1)
        b2 == IF header_idx > 0 THEN DropFirst(b1, header_idx) ELSE b1
        has4 == header_idx # -1 /\ Len(b2) >= 4
        status == b2[3]
        msg_len == b2[4]
        total_len == TotalLen(msg_len)
        full == has4 /\ Len(b2) >= total_len
        frame == TakeFirst(b2, total_len)
        garbage == IF header_idx > 0 THEN header_idx ELSE 0
        waits == [buffer |-> b2, returns |-> FALSE, status |-> TimeoutStatus,
                  msg |-> <<>>, garbage |-> garbage, skipped |-> 0]
    IN  IF ~full THEN waits
        ELSE IF CrcOk(frame)
        THEN [waits EXCEPT !.returns = TRUE, !.status = status,
                           !.msg = Utf8Decode(SubSeq(frame, 5, 4 + msg_len))]
        ELSE [waits EXCEPT !.buffer = DropFirst(b2, 2), !.skipped = 2]

AckIter(buf, new) ==
    LET b1 == buf \o new
        header_idx == Find(b1)
        b2 == IF header_idx > 0 THEN DropFirst(b1, header_idx) ELSE b1
        has4 == header_idx # -1 /\ Len(b2) >= 4
        status == b2[3]
        msg_len == b2[4]
        total_len == TotalLen(msg_len)
        full == has4 /\ Len(b2) >= total_len
        frame == TakeFirst(b2, total_len)
        garbage == IF header_idx > 0 THEN header_idx ELSE 0
        waits == [buffer |-> b2, returns |-> FALSE, status |-> TimeoutStatus,
                  msg |-> <<>>, garbage |-> garbage, skipped |-> 0]
    IN  IF ~full THEN waits
        ELSE IF CrcOk(frame)
        THEN [waits EXCEPT !.returns = TRUE, !.status = status,
                           !.msg = Utf8Decode(SubSeq(frame, 5, 4 + msg_len))]
        ELSE [waits EXCEPT !.buffer = DropFirst(b2, 2), !.skipped = 2]
\* AckPoll that gives the wait a second more when it drops garbage
AckPollExtends ==
    /\ pc \in WaitPcs
    /\ elapsed < timeout
    /\ \E r \in {AckIter(buffer, rx)} :
        /\ rx' = <<>>
        /\ rxFor' = <<>>
        /\ allread' = allread \o rx
        /\ readFor' = readFor \o rxFor
        /\ buffer' = r.buffer
        /\ discarded' = discarded + r.garbage
        /\ base' = base + r.garbage + r.skipped
        /\ timeout' = IF r.garbage > 0 THEN timeout + 1 ELSE timeout
        /\ IF r.returns
           THEN /\ ack' = [status |-> r.status, msg |-> r.msg]
                /\ accPos' = base + r.garbage
                /\ pc' = AfterWait(pc)
           ELSE UNCHANGED <<ack, accPos, pc>>
    /\ UNCHANGED <<fileExists, file_size, ser, dtr, rts, resetLog, interrupted,
                   sessVars, wire, owed, elapsed, scen, crcVars>>

\* while (time.time() - start_time) < timeout: one pass of the body
AckPoll ==
    /\ pc \in WaitPcs
    /\ elapsed < timeout
    /\ \E r \in {AckIter(buffer, rx)} :
        /\ rx' = <<>>
        /\ rxFor' = <<>>
        /\ allread' = allread \o rx
        /\ readFor' = readFor \o rxFor
        /\ buffer' = r.buffer
        /\ discarded' = discarded + r.garbage
        /\ base' = base + r.garbage + r.skipped
        /\ IF r.returns
           THEN /\ ack' = [status |-> r.status, msg |-> r.msg]
                /\ accPos' = base + r.garbage
                /\ pc' = AfterWait(pc)
           ELSE UNCHANGED <<ack, accPos, pc>>
    /\ UNCHANGED <<fileExists, file_size, ser, dtr, rts, resetLog, interrupted,
                   sessVars, wire, owed, elapsed, timeout, scen, crcVars>>

\* the loop condition fails: return -1, "Timeout"
AckDeadline ==
    /\ pc \in WaitPcs
    /\ elapsed >= timeout
    /\ ack' = [status |-> TimeoutStatus, msg |-> TimeoutMsg]
    /\ pc' = AfterWait(pc)
    /\ UNCHANGED <<fileExists, file_size, ser, dtr, rts, resetLog, interrupted,
                   sessVars, devVars, buffer, elapsed, timeout, allread, readFor,
                   base, discarded, accPos, scen, crcVars>>

\* Time passes while receive_ack is in its loop.  The loop reads the clock only
\* to compare it with the timeout, so the model lets the clock jump to the
\* deadline: any number of passes of the loop may come before the jump.
Tick ==
    /\ pc \in WaitPcs
    /\ elapsed < timeout
    /\ elapsed' = timeout
    /\ UNCHANGED <<progVars, sessVars, devVars, buffer, timeout, ack, allread,
                   readFor, base, discarded, accPos, scen, crcVars>>

\* bytes in flight reach the transport's input buffer, in any split
Arrive ==
    /\ wire # <<>>
    /\ ser = "open"
    /\ \E k \in 1..Len(wire) :
        /\ rx' = rx \o TakeFirst(wire, k)
        /\ rxFor' = rxFor \o [j \in 1..k |-> 0]
        /\ wire' = DropFirst(wire, k)
    /\ UNCHANGED <<progVars, sessVars, owed, ackVars, scen, crcVars>>

(***************************************************************************)
(* The device, as far as the host can see it.  In the program run the      *)
(* device answers a command it has received with one acknowledgment frame, *)
(* at any later time or never; a frame may arrive damaged; and the device  *)
(* prints noise (its boot log) after the reset line is released.  Replies  *)
(* and noise reach the transport's input buffer whole; the arrival of a    *)
(* byte stream in pieces is the subject of the receive_ack specification.  *)
(***************************************************************************)
\* "OK" and "E", the texts the modelled device puts in its replies
OkText == <<79, 75>>
ErrText == <<69>>
\* what the modelled device prints as noise, a byte at a time ("A")
NoiseText == <<65>>

RECURSIVE Pow2(_)
Pow2(n) == IF n = 0 THEN 1 ELSE 2 * Pow2(n - 1)

\* the frame with bit `bit` (0..15) of its 16-bit CRC field inverted
FlipCrcBit(frame, bit) ==
    LET n == Len(frame)
        crc == UnpackU16(<<frame[n - 1], frame[n]>>)
    IN  TakeFirst(frame, n - 2) \o PackU16(Xor(crc, Pow2(bit)))

DevFrames ==
    {EncodeAck(0, OkText), EncodeAck(1, ErrText), FlipCrcBit(EncodeAck(0, OkText), 0)}

\* the device answers the oldest command it still owes a reply to
DevReply ==
    /\ ser = "open"
    /\ pc \in TryPcs
    /\ owed > 0
    /\ owed' = owed - 1
    /\ \E f \in DevFrames :
        /\ rx' = rx \o f
        /\ rxFor' = rxFor \o [j \in 1..Len(f) |-> Len(sent) - owed + 1]
    /\ UNCHANGED <<progVars, sessVars, wire, ackVars, scen, crcVars>>

\* the booting device prints a byte of its log
DevNoise ==
    /\ ser = "open"
    /\ pc \in {"reset_settle", "reset_flush", "sync"}
    /\ sent = <<>>
    /\ Len(rx) < MaxNoise
    /\ rx' = rx \o NoiseText
    /\ rxFor' = rxFor \o [j \in 1..Len(NoiseText) |-> 0]
    /\ UNCHANGED <<progVars, sessVars, wire, owed, ackVars, scen, crcVars>>

(***************************************************************************)
(* connect() and _reset_device().                                          *)
(***************************************************************************)
\* serial.Serial(...) succeeds
OpenOk ==
    /\ pc = "connect"
    /\ ser' = "open"
    /\ pc' = "reset_lines"
    /\ UNCHANGED <<fileExists, file_size, dtr, rts, resetLog, interrupted,
                   sessVars, devVars, ackVars, scen, crcVars>>

\* serial.Serial(...) raises: connect() returns False with self.ser still None
OpenFail ==
    /\ pc = "connect"
    /\ pc' = "finally"
    /\ UNCHANGED <<fileExists, file_size, ser, dtr, rts, resetLog, interrupted,
                   sessVars, devVars, ackVars, scen, crcVars>>

\* dtr = False; rts = False; sleep(0.1)
ResetLines ==
    /\ pc = "reset_lines"
    /\ dtr' = "False"
    /\ rts' = "False"
    /\ resetLog' = Append(resetLog, "deassert_both")
    /\ pc' = "reset_assert"
    /\ UNCHANGED <<fileExists, file_size, ser, interrupted, sessVars, devVars,
                   ackVars, scen, crcVars>>
\* ResetAssert that asserts the boot-mode line together with the reset line
ResetAssertBoot ==
    /\ pc = "reset_assert"
    /\ rts' = "True"
    /\ dtr' = "True"
    /\ resetLog' = Append(resetLog, "assert_reset")
    /\ pc' = "reset_release"
    /\ UNCHANGED <<fileExists, file_size, ser, interrupted, sessVars,
                   devVars, ackVars, scen, crcVars>>

\* rts = True; sleep(0.1)
ResetAssert ==
    /\ pc = "reset_assert"
    /\ rts' = "True"
    /\ resetLog' = Append(resetLog, "assert_reset")
    /\ pc' = "reset_release"
    /\ UNCHANGED <<fileExists, file_size, ser, dtr, interrupted, sessVars,
                   devVars, ackVars, scen, crcVars>>

\* rts = False; sleep(0.1)
ResetRelease ==
    /\ pc = "reset_release"
    /\ rts' = "False"
    /\ resetLog' = Append(resetLog, "release_reset")
    /\ pc' = "reset_settle"
    /\ UNCHANGED <<fileExists, file_size, ser, dtr, interrupted, sessVars,
                   devVars, ackVars, scen, crcVars>>

\* sleep(2.0)
ResetSettle ==
    /\ pc = "reset_settle"
    /\ resetLog' = Append(resetLog, "settle")
    /\ pc' = "reset_flush"
    /\ UNCHANGED <<fileExists, file_size, ser, dtr, rts, interrupted, sessVars,
                   devVars, ackVars, scen, crcVars>>

\* reset_input_buffer(); connect() returns True and main calls sync()
ResetFlush ==
    /\ pc = "reset_flush"
    /\ rx' = <<>>
    /\ rxFor' = <<>>
    /\ resetLog' = Append(resetLog, "flush_input")
    /\ i' = 0
    /\ pc' = "sync"
    /\ UNCHANGED <<fileExists, file_size, ser, dtr, rts, interrupted, sent,
                   syncRet, upRet, offset, current_chunk, reports, wire, owed,
                   ackVars, scen, crcVars>>
\* ResetFault with connect() going on as if the reset had been done
ResetFaultIgnored ==
    /\ pc \in ResetPcs
    /\ i' = 0
    /\ pc' = "sync"
    /\ UNCHANGED <<fileExists, file_size, ser, dtr, rts, resetLog, interrupted,
                   sent, syncRet, upRet, offset, current_chunk, reports,
                   devVars, ackVars, scen, crcVars>>

\* the transport raises inside _reset_device: connect() catches, returns False
ResetFault ==
    /\ pc \in ResetPcs
    /\ pc' = "finally"
    /\ UNCHANGED <<fileExists, file_size, ser, dtr, rts, resetLog, interrupted,
                   sessVars, devVars, ackVars, scen, crcVars>>

(***************************************************************************)
(* sync().                                                                 *)
(***************************************************************************)
\* for i in range(3): send_frame(OTA_CMD_VERIFY); receive_ack(timeout=1.0)
SyncSend ==
    /\ pc = "sync"
    /\ i < SyncAttempts
    /\ sent' = send_frame(OTA_CMD_VERIFY, 0, 0)
    /\ owed' = Received(owed)
    /\ AckEnter(SyncTimeout, "sync_wait")
    /\ UNCHANGED <<fileExists, file_size, ser, dtr, rts, resetLog, interrupted,
                   i, syncRet, upRet, offset, current_chunk, reports, wire, rx,
                   rxFor, scen, crcVars>>

\* the loop is exhausted: return False; main prints and leaves the try block
SyncFail ==
    /\ pc = "sync"
    /\ i >= SyncAttempts
    /\ syncRet' = "False"
    /\ pc' = "finally"
    /\ UNCHANGED <<fileExists, file_size, ser, dtr, rts, resetLog, interrupted,
                   sent, i, upRet, offset, current_chunk, reports, devVars,
                   ackVars, scen, crcVars>>
\* SyncGot that takes only status 0 as the device being there
SyncGotZeroOnly ==
    /\ pc = "sync_got"
    /\ IF ack.status = 0
       THEN /\ syncRet' = "True"
            /\ pc' = "upload"
            /\ i' = i
       ELSE /\ i' = i + 1
            /\ pc' = "sync"
            /\ syncRet' = syncRet
    /\ ack' = NoAck
    /\ AckLeave
    /\ UNCHANGED <<fileExists, file_size, ser, dtr, rts, resetLog, interrupted,
                   sent, upRet, offset, current_chunk, reports, devVars, scen,
                   crcVars>>

\* SyncGot with the attempt not counted after a timeout
SyncGotNoCount ==
    /\ pc = "sync_got"
    /\ IF ack.status = 0 \/ ack.status > 0
       THEN /\ syncRet' = "True"
            /\ pc' = "upload"
       ELSE /\ pc' = "sync"
            /\ syncRet' = syncRet
    /\ ack' = NoAck
    /\ AckLeave
    /\ UNCHANGED <<fileExists, file_size, ser, dtr, rts, resetLog, interrupted,
                   sent, i, upRet, offset, current_chunk, reports, devVars, scen, crcVars>>

\* status == 0 or status > 0: return True; else sleep(0.5), the next attempt
SyncGot ==
    /\ pc = "sync_got"
    /\ IF ack.status = 0 \/ ack.status > 0
       THEN /\ syncRet' = "True"
            /\ pc' = "upload"
            /\ i' = i
       ELSE /\ i' = i + 1
            /\ pc' = "sync"
            /\ syncRet' = syncRet
    /\ ack' = NoAck
    /\ AckLeave
    /\ UNCHANGED <<fileExists, file_size, ser, dtr, rts, resetLog, interrupted,
                   sent, upRet, offset, current_chunk, reports, devVars, scen, crcVars>>

(***************************************************************************)
(* upload_file().                                                          *)
(***************************************************************************)
\* ChunkLen without the cut at the end of the data
ChunkLenFull(off) == CHUNK_SIZE

\* len(data[offset : offset + CHUNK_SIZE])
ChunkLen(off) == Min(CHUNK_SIZE, file_size - off)
\* Percent rounded up
PercentCeil(off) == ((off * 100) + file_size - 1) \div file_size

\* (offset * 100) // file_size
Percent(off) == (off * 100) \div file_size

\* not os.path.exists(file_path): return False
UploadNoFile ==
    /\ pc = "upload"
    /\ ~fileExists
    /\ upRet' = "False"
    /\ pc' = "finally"
    /\ UNCHANGED <<fileExists, file_size, ser, dtr, rts, resetLog, interrupted,
                   sent, i, syncRet, offset, current_chunk, reports, devVars,
                   ackVars, scen, crcVars>>

\* send_frame(OTA_CMD_START, pack('>I', file_size)); receive_ack(timeout=10.0)
UploadStart ==
    /\ pc = "upload"
    /\ fileExists
    /\ sent' = send_frame(OTA_CMD_START, 4, file_size)
    /\ owed' = Received(owed)
    /\ AckEnter(StartTimeout, "start_wait")
    /\ UNCHANGED <<fileExists, file_size, ser, dtr, rts, resetLog, interrupted,
                   i, syncRet, upRet, offset, current_chunk, reports, wire, rx,
                   rxFor, scen, crcVars>>

\* StartGot that sends START again after a timeout
StartGotRetry ==
    /\ pc = "start_got"
    /\ IF ack.status < 0
       THEN /\ pc' = "upload"
            /\ UNCHANGED <<offset, current_chunk, upRet>>
       ELSE IF ack.status # 0
       THEN /\ upRet' = "False"
            /\ pc' = "finally"
            /\ UNCHANGED <<offset, current_chunk>>
       ELSE /\ offset' = 0
            /\ current_chunk' = 0
            /\ pc' = "data_loop"
            /\ upRet' = upRet
    /\ ack' = NoAck
    /\ AckLeave
    /\ UNCHANGED <<fileExists, file_size, ser, dtr, rts, resetLog, interrupted,
                   sent, i, syncRet, reports, devVars, scen, crcVars>>

\* status != 0: return False; else offset = 0, current_chunk = 0
StartGot ==
    /\ pc = "start_got"
    /\ IF ack.status # 0
       THEN /\ upRet' = "False"
            /\ pc' = "finally"
            /\ UNCHANGED <<offset, current_chunk>>
       ELSE /\ offset' = 0
            /\ current_chunk' = 0
            /\ pc' = "data_loop"
            /\ upRet' = upRet
    /\ ack' = NoAck
    /\ AckLeave
    /\ UNCHANGED <<fileExists, file_size, ser, dtr, rts, resetLog, interrupted,
                   sent, i, syncRet, reports, devVars, scen, crcVars>>

\* while offset < file_size: send_frame(OTA_CMD_DATA, chunk); receive_ack(1.0)
DataSend ==
    /\ pc = "data_loop"
    /\ offset < file_size
    /\ sent' = send_frame(OTA_CMD_DATA, ChunkLen(offset), offset)
    /\ owed' = Received(owed)
    /\ AckEnter(DataTimeout, "data_wait")
    /\ UNCHANGED <<fileExists, file_size, ser, dtr, rts, resetLog, interrupted,
                   i, syncRet, upRet, offset, current_chunk, reports, wire, rx,
                   rxFor, scen, crcVars>>
\* DataGot that advances the offset by a whole chunk whatever was sent
DataGotFullChunk ==
    /\ pc = "data_got"
    /\ IF ack.status # 0
       THEN /\ upRet' = "False"
            /\ pc' = "finally"
            /\ UNCHANGED <<offset, current_chunk, reports>>
       ELSE /\ offset' = offset + CHUNK_SIZE
            /\ current_chunk' = current_chunk + 1
            /\ reports' = Append(reports, Percent(offset'))
            /\ pc' = "data_loop"
            /\ upRet' = upRet
    /\ ack' = NoAck
    /\ AckLeave
    /\ UNCHANGED <<fileExists, file_size, ser, dtr, rts, resetLog, interrupted,
                   sent, i, syncRet, devVars, scen, crcVars>>

\* DataGot that sends the chunk again after a timeout
DataGotRetry ==
    /\ pc = "data_got"
    /\ IF ack.status < 0
       THEN /\ pc' = "data_loop"
            /\ UNCHANGED <<offset, current_chunk, reports, upRet>>
       ELSE IF ack.status # 0
       THEN /\ upRet' = "False"
            /\ pc' = "finally"
            /\ UNCHANGED <<offset, current_chunk, reports>>
       ELSE /\ offset' = offset + ChunkLen(offset)
            /\ current_chunk' = current_chunk + 1
            /\ reports' = Append(reports, Percent(offset'))
            /\ pc' = "data_loop"
            /\ upRet' = upRet
    /\ ack' = NoAck
    /\ AckLeave
    /\ UNCHANGED <<fileExists, file_size, ser, dtr, rts, resetLog, interrupted,
                   sent, i, syncRet, devVars, scen, crcVars>>

\* status != 0: return False; else offset += len(chunk) and the progress bar
DataGot ==
    /\ pc = "data_got"
    /\ IF ack.status # 0
       THEN /\ upRet' = "False"
            /\ pc' = "finally"
            /\ UNCHANGED <<offset, current_chunk, reports>>
       ELSE /\ offset' = offset + ChunkLen(offset)
            /\ current_chunk' = current_chunk + 1
            /\ reports' = Append(reports, Percent(offset'))
            /\ pc' = "data_loop"
            /\ upRet' = upRet
    /\ ack' = NoAck
    /\ AckLeave
    /\ UNCHANGED <<fileExists, file_size, ser, dtr, rts, resetLog, interrupted,
                   sent, i, syncRet, devVars, scen, crcVars>>
\* EndSend that ends the loop when at most one byte is left to send
EndSendEarly ==
    /\ pc = "data_loop"
    /\ ~(offset + 1 < file_size)
    /\ sent' = send_frame(OTA_CMD_END, 0, 0)
    /\ owed' = Received(owed)
    /\ AckEnter(EndTimeout, "end_wait")
    /\ UNCHANGED <<fileExists, file_size, ser, dtr, rts, resetLog, interrupted,
                   i, syncRet, upRet, offset, current_chunk, reports, wire, rx,
                   rxFor, scen, crcVars>>

\* the loop ends: send_frame(OTA_CMD_END); receive_ack(timeout=5.0)
EndSend ==
    /\ pc = "data_loop"
    /\ ~(offset < file_size)
    /\ sent' = send_frame(OTA_CMD_END, 0, 0)
    /\ owed' = Received(owed)
    /\ AckEnter(EndTimeout, "end_wait")
    /\ UNCHANGED <<fileExists, file_size, ser, dtr, rts, resetLog, interrupted,
                   i, syncRet, upRet, offset, current_chunk, reports, wire, rx,
                   rxFor, scen, crcVars>>

\* status != 0: return False; else return True
EndGot ==
    /\ pc = "end_got"
    /\ upRet' = IF ack.status # 0 THEN "False" ELSE "True"
    /\ pc' = "finally"
    /\ ack' = NoAck
    /\ AckLeave
    /\ UNCHANGED <<fileExists, file_size, ser, dtr, rts, resetLog, interrupted,
                   sent, i, syncRet, offset, current_chunk, reports, devVars,
                   scen, crcVars>>

(***************************************************************************)
(* The main program: try / except KeyboardInterrupt / finally.             *)
(***************************************************************************)
\* KeyboardInterrupt anywhere in the try block: the calls in progress are
\* abandoned, the handler prints
Interrupt ==
    /\ pc \in TryPcs
    /\ interrupted' = TRUE
    /\ pc' = "finally"
    /\ ack' = NoAck
    /\ AckLeave
    /\ UNCHANGED <<fileExists, file_size, ser, dtr, rts, resetLog, sessVars,
                   devVars, scen, crcVars>>

\* Close that is skipped after an interrupt
CloseUnlessInterrupted ==
    /\ pc = "finally"
    /\ ser' = IF ser = "open" /\ ~interrupted THEN "closed" ELSE ser
    /\ rx' = <<>>
    /\ rxFor' = <<>>
    /\ pc' = "done"
    /\ UNCHANGED <<fileExists, file_size, dtr, rts, resetLog, interrupted,
                   sessVars, wire, owed, ackVars, scen, crcVars>>

\* finally: ota.close(), which closes only an open port (and with the port
\* goes its input buffer)
Close ==
    /\ pc = "finally"
    /\ ser' = IF ser = "open" THEN "closed" ELSE ser
    /\ rx' = <<>>
    /\ rxFor' = <<>>
    /\ pc' = "done"
    /\ UNCHANGED <<fileExists, file_size, dtr, rts, resetLog, interrupted,
                   sessVars, wire, owed, ackVars, scen, crcVars>>

(***************************************************************************)
(* The program run.                                                        *)
(***************************************************************************)
\* k full chunks, and one byte or one byte less than a chunk more
FileSizes ==
    {k * CHUNK_SIZE + r : k \in 0..MaxChunks, r \in {0, 1, CHUNK_SIZE - 1}}

SessionScen == [kind |-> "session"]

\* crc16_xmodem is not running on its own
NoCrcRun ==
    /\ crcData = <<>>
    /\ crcK = 0
    /\ crcReg = 0
    /\ crcRet = -1

Init ==
    /\ pc = "connect"
    /\ fileExists \in BOOLEAN
    /\ file_size \in FileSizes
    /\ (~fileExists => file_size = 0)
    /\ ser = "none"
    /\ dtr = "unset"
    /\ rts = "unset"
    /\ resetLog = <<>>
    /\ interrupted = FALSE
    /\ sent = <<>>
    /\ i = 0
    /\ syncRet = "none"
    /\ upRet = "none"
    /\ offset = 0
    /\ current_chunk = 0
    /\ reports = <<>>
    /\ wire = <<>>
    /\ rx = <<>>
    /\ rxFor = <<>>
    /\ owed = 0
    /\ buffer = <<>>
    /\ elapsed = 0
    /\ timeout = 0
    /\ ack = NoAck
    /\ allread = <<>>
    /\ readFor = <<>>
    /\ base = 0
    /\ discarded = 0
    /\ accPos = -1
    /\ scen = SessionScen
    /\ NoCrcRun

Next ==
    \/ OpenOk \/ OpenFail
    \/ ResetLines \/ ResetAssert \/ ResetRelease \/ ResetSettle \/ ResetFlush
    \/ ResetFault
    \/ SyncSend \/ SyncFail \/ SyncGot
    \/ UploadNoFile \/ UploadStart \/ StartGot
    \/ DataSend \/ DataGot \/ EndSend \/ EndGot
    \/ AckPoll \/ AckDeadline \/ Tick
    \/ DevReply \/ DevNoise
    \/ Interrupt \/ Close

Spec == Init /\ [][Next]_vars

(***************************************************************************)
(* The program run with a clock that advances and a program that takes its *)
(* steps: time does not stop during a wait (the jump of the clock to the   *)
(* deadline is fair), and a program step that stays possible is taken.     *)
(* Nothing is required of the device, of the user or of the faults.  The   *)
(* device may also send, during a wait, bytes that are no reply: noise or  *)
(* a marker that starts no frame.                                          *)
(***************************************************************************)
\* the most bytes a wait has taken in when the device sends it more noise
MaxFlood == 2

Flood ==
    /\ ser = "open"
    /\ pc \in WaitPcs
    /\ \E f \in {NoiseText, OTA_ACK_HEADER_SEQ} :
        /\ Len(allread) + Len(rx) + Len(f) <= MaxFlood
        /\ rx' = rx \o f
        /\ rxFor' = rxFor \o [j \in 1..Len(f) |-> 0]
    /\ UNCHANGED <<progVars, sessVars, wire, owed, ackVars, scen, crcVars>>

\* the steps of the program itself that are bound to be taken.  (A pass of
\* the loop of receive_ack is not among them: the wait ends by the clock,
\* whether or not the loop gets to run before the deadline.)
ProgramStep ==
    \/ OpenOk \/ OpenFail
    \/ ResetLines \/ ResetAssert \/ ResetRelease \/ ResetSettle \/ ResetFlush
    \/ SyncSend \/ SyncFail \/ SyncGot
    \/ UploadNoFile \/ UploadStart \/ StartGot
    \/ DataSend \/ DataGot \/ EndSend \/ EndGot
    \/ AckDeadline
    \/ Close

NextLive == Next \/ Flood

\* the runs start as in Init, with a file that is missing, empty, of one
\* byte or of two full chunks
LiveSizes == {0, 1, 2 * CHUNK_SIZE}

InitLive ==
    /\ Init
    /\ file_size \in LiveSizes

SpecLive ==
    /\ InitLive
    /\ [][NextLive]_vars
    /\ WF_vars(Tick)
    /\ WF_vars(ProgramStep)

(***************************************************************************)
(* receive_ack on its own: the call that follows the first VERIFY, fed a   *)
(* byte stream that reaches the input buffer in any split.  The streams:   *)
(*   "valid"   garbage without a marker, then a valid frame;               *)
(*   "crcflip" garbage, a frame with one bit of its CRC field inverted,    *)
(*             then nothing or a valid frame;                              *)
(*   "false"   a marker that starts no frame (followed by 0, 1 or 2 more   *)
(*             bytes), then a valid frame.                                 *)
(***************************************************************************)
GarbageBytes == {NoiseText[1], AckHdr0, AckHdr1}

SeqsUpTo(S, n) == UNION {[1..k -> S] : k \in 0..n}

\* the garbage prefixes: no marker in them
NoMarker(g) ==
    \A k \in 1..(Len(g) - 1) : ~(g[k] = AckHdr0 /\ g[k + 1] = AckHdr1)

Garbage == {g \in SeqsUpTo(GarbageBytes, MaxGarbage) : NoMarker(g)}

\* "", "OK", "é", "€", and "ªU", whose encoding C2 AA 55 holds the marker
Texts == {<<>>, OkText, <<233>>, <<8364>>, <<170, 85>>}

Statuses == {0, 255}

\* what follows a false marker: nothing, a status, or a status and a length
\* (0, 1: the window is complete once the valid frame is in; 200: it is not)
FakeTails == {<<>>, <<1>>, <<1, 0>>, <<1, 1>>, <<1, 200>>}

ValidScens ==
    [kind : {"valid"}, g : Garbage, status : Statuses, text : Texts,
     bit : {0}, tail : {<<>>}]

FlipScens ==
    [kind : {"crcflip"}, g : {<<>>, NoiseText}, status : {0}, text : {<<>>, <<170, 85>>},
     bit : 0..15, tail : {<<>>, EncodeAck(1, ErrText)}]

FalseScens ==
    [kind : {"false"}, g : {OTA_ACK_HEADER_SEQ \o t : t \in FakeTails},
     status : {0}, text : {<<>>, OkText}, bit : {0}, tail : {<<>>}]

AckScens == ValidScens \cup FlipScens \cup FalseScens

\* the bytes the device sends in a scenario
Stream(sc) ==
    CASE sc.kind = "valid" -> sc.g \o EncodeAck(sc.status, sc.text)
      [] sc.kind = "crcflip" ->
            sc.g \o FlipCrcBit(EncodeAck(sc.status, sc.text), sc.bit) \o sc.tail
      [] sc.kind = "false" -> sc.g \o EncodeAck(sc.status, sc.text)

ResetSteps ==
    <<"deassert_both", "assert_reset", "release_reset", "settle", "flush_input">>

\* a scenario together with its stream
Input(sc) ==
    [kind |-> sc.kind, g |-> sc.g, status |-> sc.status, text |-> sc.text,
     bit |-> sc.bit, tail |-> sc.tail, stream |-> Stream(sc)]

InitAck ==
    /\ scen \in {Input(sc) : sc \in AckScens}
    /\ wire = scen.stream
    /\ pc = "sync_wait"
    /\ fileExists = TRUE
    /\ file_size = 0
    /\ ser = "open"
    /\ dtr = "False"
    /\ rts = "False"
    /\ resetLog = ResetSteps
    /\ interrupted = FALSE
    /\ sent = <<Frame(OTA_CMD_VERIFY, 0, 0)>>
    /\ i = 0
    /\ syncRet = "none"
    /\ upRet = "none"
    /\ offset = 0
    /\ current_chunk = 0
    /\ reports = <<>>
    /\ rx = <<>>
    /\ rxFor = <<>>
    /\ owed = 0
    /\ buffer = <<>>
    /\ elapsed = 0
    /\ timeout = SyncTimeout
    /\ ack = NoAck
    /\ allread = <<>>
    /\ readFor = <<>>
    /\ base = 0
    /\ discarded = 0
    /\ accPos = -1
    /\ NoCrcRun

NextAck == Arrive \/ AckPoll \/ AckDeadline \/ Tick

SpecAck == InitAck /\ [][NextAck]_vars

(***************************************************************************)
(* crc16_xmodem on its own: the loop over the bytes of data, one byte a    *)
(* step, and the return of the masked register.  The inputs are all byte   *)
(* strings of up to MaxCrcLen bytes over CrcBytes, and the check string    *)
(* "123456789".                                                            *)
(***************************************************************************)
MaxCrcLen == 3

CrcBytes == {0, 1, 128, 255}

\* "123456789"
CheckText == <<49, 50, 51, 52, 53, 54, 55, 56, 57>>

CrcInputs == SeqsUpTo(CrcBytes, MaxCrcLen) \cup {CheckText}

CrcScen == [kind |-> "crc"]

InitCrc ==
    /\ scen = CrcScen
    /\ crcData \in CrcInputs
    /\ crcK = 0
    /\ crcReg = 0
    /\ crcRet = -1
    /\ pc = "connect"
    /\ fileExists = FALSE
    /\ file_size = 0
    /\ ser = "none"
    /\ dtr = "unset"
    /\ rts = "unset"
    /\ resetLog = <<>>
    /\ interrupted = FALSE
    /\ sent = <<>>
    /\ i = 0
    /\ syncRet = "none"
    /\ upRet = "none"
    /\ offset = 0
    /\ current_chunk = 0
    /\ reports = <<>>
    /\ wire = <<>>
    /\ rx = <<>>
    /\ rxFor = <<>>
    /\ owed = 0
    /\ buffer = <<>>
    /\ elapsed = 0
    /\ timeout = 0
    /\ ack = NoAck
    /\ allread = <<>>
    /\ readFor = <<>>
    /\ base = 0
    /\ discarded = 0
    /\ accPos = -1

\* for byte in data: crc ^= byte << 8 and the eight rounds
CrcStep ==
    /\ scen = CrcScen
    /\ crcRet = -1
    /\ crcK < Len(crcData)
    /\ crcReg' = CrcByte(crcReg, crcData[crcK + 1])
    /\ crcK' = crcK + 1
    /\ UNCHANGED <<progVars, sessVars, devVars, ackVars, scen, crcData, crcRet>>

\* return crc & 0xFFFF
CrcReturn ==
    /\ scen = CrcScen
    /\ crcRet = -1
    /\ crcK = Len(crcData)
    /\ crcRet' = crcReg % CrcTopBit
    /\ UNCHANGED <<progVars, sessVars, devVars, ackVars, scen, crcData, crcK,
                   crcReg>>

NextCrc == CrcStep \/ CrcReturn

SpecCrc == InitCrc /\ [][NextCrc]_vars

(***************************************************************************)
(* The session's frames.                                                   *)
(***************************************************************************)
Frames(c) == LET test(f) == f.cmd = c IN SelectSeq(sent, test)
Last(q) == q[Len(q)]
Verifies(n) == [k \in 1..n |-> Frame(OTA_CMD_VERIFY, 0, 0)]
CeilDiv(a, b) == IF a % b = 0 THEN a \div b ELSE (a \div b) + 1
RECURSIVE SumLen(_)
SumLen(q) == IF q = <<>> THEN 0 ELSE Head(q).len + SumLen(Tail(q))
Exited == pc \in {"finally", "done"}

(***************************************************************************)
(* C1.  Sync retry bound: attempt i+1 is made only after i timeouts, each  *)
(* attempt sends one VERIFY, no more than 3 are ever sent, and sync()      *)
(* reports failure only after exactly 3 VERIFY frames, after which the run *)
(* is over with nothing but those 3 frames written.                        *)
(***************************************************************************)
C1_SyncRetryBound ==
    /\ Len(Frames(OTA_CMD_VERIFY)) <= 3
    /\ pc = "sync" => sent = Verifies(i)
    /\ pc \in {"sync_wait", "sync_got"} => i < 3 /\ sent = Verifies(i + 1)
    /\ syncRet = "False" => sent = Verifies(3) /\ Exited /\ upRet = "none"

C1_Witness == syncRet = "False" /\ ~interrupted /\ pc = "done"

(***************************************************************************)
(* C2.  Abort on the first failed DATA acknowledgment: when the wait after *)
(* a DATA frame returns a status other than 0 (a device error or the       *)
(* timeout), the next step of the program (unless it is interrupted) is    *)
(* upload_file returning False, with the offset and the frames written     *)
(* unchanged; and once the run has left the try block nothing more is      *)
(* written, so no DATA and no END follows.                                 *)
(***************************************************************************)
C2_AbortOnFirstFailure ==
    [][/\ (pc = "data_got" /\ ack.status # 0 /\ pc' # pc /\ ~interrupted')
            => (upRet' = "False" /\ pc' = "finally" /\ sent' = sent
                /\ offset' = offset /\ current_chunk' = current_chunk
                /\ reports' = reports)
       /\ Exited => (sent' = sent /\ Exited' /\ upRet' = upRet)]_vars

C2_Witness ==
    /\ pc = "done"
    /\ upRet = "False"
    /\ Last(sent).cmd = OTA_CMD_DATA
    /\ Last(sent).arg = CHUNK_SIZE
    /\ offset = CHUNK_SIZE

(***************************************************************************)
(* C3.  Chunking: the j-th DATA frame carries the bytes from offset        *)
(* (j-1)*4096, 4096 of them unless fewer are left; there are never more    *)
(* than ceil(S/4096) DATA frames; and when END is written there are        *)
(* exactly ceil(S/4096), their lengths sum to S, and the last one carries  *)
(* S mod 4096 bytes (4096 when S is a positive multiple of 4096).          *)
(***************************************************************************)
C3_Chunking ==
    LET D == Frames(OTA_CMD_DATA)
        S == file_size
        n == CeilDiv(S, 4096)
    IN  /\ Len(D) <= n
        /\ \A j \in DOMAIN D :
            /\ D[j].arg = (j - 1) * 4096
            /\ j < n => D[j].len = 4096
            /\ j = n => D[j].len = IF S % 4096 = 0 THEN 4096 ELSE S % 4096
        /\ Frames(OTA_CMD_END) # <<>> => Len(D) = n /\ SumLen(D) = S

C3_Witness ==
    /\ Frames(OTA_CMD_END) # <<>>
    /\ Len(Frames(OTA_CMD_DATA)) = 3
    /\ Last(Frames(OTA_CMD_DATA)).len = 1

(***************************************************************************)
(* C4.  Phase order: the frames written are a prefix of VERIFY^k (k in     *)
(* 1..3), START, DATA_0 .. DATA_{n-1}, END with n = ceil(S/4096): START    *)
(* and END at most once, every chunk at most once and in order, no VERIFY  *)
(* after START; and once sync() has failed or upload_file() has returned   *)
(* the run has left the try block, where nothing is written.               *)
(***************************************************************************)
PhaseRank(cmd) ==
    CASE cmd = OTA_CMD_VERIFY -> 1
      [] cmd = OTA_CMD_START -> 2
      [] cmd = OTA_CMD_DATA -> 3
      [] cmd = OTA_CMD_END -> 4

C4_PhaseOrder ==
    LET D == Frames(OTA_CMD_DATA) IN
    /\ \A k \in 1..(Len(sent) - 1) :
        /\ PhaseRank(sent[k].cmd) <= PhaseRank(sent[k + 1].cmd)
        /\ PhaseRank(sent[k + 1].cmd) <= PhaseRank(sent[k].cmd) + 1
           \/ (sent[k].cmd = OTA_CMD_START /\ sent[k + 1].cmd = OTA_CMD_END
               /\ file_size = 0)
    /\ sent # <<>> => sent[1].cmd = OTA_CMD_VERIFY
    /\ Len(Frames(OTA_CMD_VERIFY)) <= 3
    /\ Len(Frames(OTA_CMD_START)) <= 1
    /\ Len(Frames(OTA_CMD_END)) <= 1
    /\ \A j \in DOMAIN D : D[j].arg = (j - 1) * CHUNK_SIZE
    /\ Frames(OTA_CMD_END) # <<>> => Len(D) = CeilDiv(file_size, CHUNK_SIZE)
    /\ (syncRet = "False" \/ upRet # "none") => Exited
    /\ Exited => pc \notin {"sync", "upload", "data_loop"}

C4_Witness ==
    /\ upRet = "True"
    /\ Len(Frames(OTA_CMD_VERIFY)) = 2
    /\ Len(Frames(OTA_CMD_DATA)) = 2
    /\ Last(sent).cmd = OTA_CMD_END

(***************************************************************************)
(* What receive_ack returned, against the bytes it read.                   *)
(***************************************************************************)
Sentinel == [status |-> TimeoutStatus, msg |-> TimeoutMsg]

\* a frame with a correct CRC lies in b from 0-based index p on
ValidWindowAt(b, p) ==
    /\ p >= 0
    /\ p + 6 <= Len(b)
    /\ b[p + 1] = AckHdr0
    /\ b[p + 2] = AckHdr1
    /\ LET n == 6 + b[p + 4] IN
        /\ p + n <= Len(b)
        /\ <<b[p + n - 1], b[p + n]>>
              = PackU16(crc16_xmodem(SubSeq(b, p + 1, p + n - 2)))

\* the message bytes of the frame at p
WindowMsg(b, p) == SubSeq(b, p + 5, p + 4 + b[p + 4])

(***************************************************************************)
(* C5.  CRC gate: whenever receive_ack has returned, it returned either    *)
(* the sentinel (-1, "Timeout"), or a status in 0..255 and a message taken *)
(* from a window of the bytes read that starts with AA 55, is 6 + declared *)
(* length bytes long and ends with the CRC of the bytes before it.         *)
(***************************************************************************)
C5_CrcGate ==
    ack # NoAck =>
        \/ ack = Sentinel /\ accPos = -1
        \/ /\ ack.status \in 0..255
           /\ ValidWindowAt(allread, accPos)
           /\ ack.status = allread[accPos + 3]
           /\ ack.msg = Utf8Decode(WindowMsg(allread, accPos))

C5_Witness ==
    /\ scen.kind = "crcflip"
    /\ ack.status = 1
    /\ accPos > 0
    /\ base >= 2

(***************************************************************************)
(* C6.  Garbage prefix and round trip: for garbage g without a marker      *)
(* followed by the frame encoding (s, m), once the polls have read all of  *)
(* it (in whatever pieces it arrived) receive_ack has returned (s, m) and  *)
(* has discarded exactly Len(g) bytes as garbage; and it returns nothing   *)
(* but the timeout before that.                                            *)
(***************************************************************************)
C6_GarbagePrefix ==
    scen.kind = "valid" =>
        /\ allread = scen.stream =>
            /\ ack = [status |-> scen.status, msg |-> scen.text]
            /\ discarded = Len(scen.g)
            /\ accPos = Len(scen.g)
        /\ ack \notin {NoAck, Sentinel} => allread = scen.stream

C6_Witness ==
    /\ scen.kind = "valid"
    /\ Len(scen.g) >= 2
    /\ Last(scen.g) = AckHdr0
    /\ scen.text = <<170, 85>>
    /\ scen.status = 255
    /\ ack = [status |-> 255, msg |-> <<170, 85>>]
    /\ discarded = Len(scen.g)

(***************************************************************************)
(* C7.  CRC corruption: a frame with one bit of its CRC field inverted is  *)
(* never the frame returned; when nothing follows it the call returns the  *)
(* timeout sentinel; and what is returned otherwise is the valid frame     *)
(* that follows it.                                                        *)
(***************************************************************************)
C7_CrcCorruption ==
    scen.kind = "crcflip" =>
        /\ accPos # Len(scen.g)
        /\ (scen.tail = <<>> /\ ack # NoAck) => ack = Sentinel
        /\ ack \notin {NoAck, Sentinel} =>
            /\ ack = [status |-> 1, msg |-> ErrText]
            /\ accPos = Len(scen.stream) - Len(scen.tail)

C7_Witness ==
    /\ scen.kind = "crcflip"
    /\ scen.bit = 15
    /\ scen.tail = <<>>
    /\ allread = scen.stream
    /\ base >= Len(scen.g) + 2
    /\ ack = Sentinel

(***************************************************************************)
(* C8.  Recovery from a false marker, as claimed: when a marker that       *)
(* starts no frame is followed by a valid frame and all of it has been     *)
(* read before the deadline, the call returns the valid frame's (status,   *)
(* message).                                                               *)
(***************************************************************************)
C8_FalseMarkerRecovery ==
    (scen.kind = "false" /\ allread = scen.stream /\ ack # NoAck) =>
        ack = [status |-> scen.status, msg |-> scen.text]

(***************************************************************************)
(* C9.  The transport is closed on every exit path: at the end of the main *)
(* program, however it was reached, the port is not open (it is closed, or *)
(* still None when it was never opened, in which case no line was driven   *)
(* and no frame written), and the port is closed nowhere else.             *)
(***************************************************************************)
C9_ClosedOnExit ==
    /\ pc = "done" => ser \in {"none", "closed"}
    /\ (pc = "done" /\ ser = "none") => (dtr = "unset" /\ sent = <<>>)
    /\ ser = "closed" => pc = "done"

C9_Witness ==
    /\ pc = "done"
    /\ interrupted
    /\ ser = "closed"
    /\ Len(sent) >= 2

C9_WitnessNeverOpened == pc = "done" /\ ser = "none"

(***************************************************************************)
(* C10.  File-not-found first, as claimed: when the firmware file does not *)
(* exist the transport is never opened, the device is never reset and no   *)
(* frame is written.                                                       *)
(***************************************************************************)
C10_FileCheckedFirst ==
    ~fileExists => (ser = "none" /\ resetLog = <<>> /\ sent = <<>>)

(***************************************************************************)
(* C11.  Sync takes any device reply as liveness: when the wait of a       *)
(* VERIFY attempt has returned a status of 0 or a positive status, the     *)
(* next step of sync() (unless the run is interrupted) returns True and    *)
(* the program goes on to upload_file with no further frame written and    *)
(* the attempt counter as it was; when the wait has returned anything      *)
(* else, that is the timeout, and the step counts one more attempt; and    *)
(* after sync() has returned True no VERIFY is written any more.           *)
(***************************************************************************)
C11_SyncLiveness ==
    [][/\ (pc = "sync_got" /\ pc' # pc /\ ~interrupted') =>
            IF ack.status >= 0
            THEN /\ syncRet' = "True"
                 /\ pc' = "upload"
                 /\ sent' = sent
                 /\ i' = i
            ELSE /\ ack = [status |-> TimeoutStatus, msg |-> TimeoutMsg]
                 /\ pc' = "sync"
                 /\ i' = i + 1
                 /\ syncRet' = syncRet
                 /\ sent' = sent
       /\ syncRet = "True" =>
            /\ syncRet' = "True"
            /\ \A k \in DOMAIN sent' :
                k > Len(sent) => sent'[k].cmd # OTA_CMD_VERIFY]_vars

\* the wait of the second attempt has returned the device's error reply
C11_Witness ==
    /\ pc = "sync_got"
    /\ ack = [status |-> 1, msg |-> ErrText]
    /\ i = 1
    /\ sent = <<Frame(OTA_CMD_VERIFY, 0, 0), Frame(OTA_CMD_VERIFY, 0, 0)>>

(***************************************************************************)
(* C13.  Progress reporting: there is one report for every DATA frame      *)
(* acknowledged with status 0 and none for a DATA frame whose wait failed; *)
(* the j-th report is floor(offset * 100 / S) for the offset after chunk   *)
(* j, lies in 0..100, is not below the report before it, and is 100        *)
(* exactly for the last chunk.                                             *)
(***************************************************************************)
C13_Progress ==
    LET S == file_size
        D == Frames(OTA_CMD_DATA)
        n == CeilDiv(S, 4096)
        off(j) == IF j * 4096 < S THEN j * 4096 ELSE S
    IN  /\ Len(reports) = current_chunk
        /\ Len(reports) <= Len(D)
        /\ Len(D) <= Len(reports) + 1
        /\ pc = "data_loop" => Len(reports) = Len(D)
        /\ pc \in {"data_wait", "data_got"} => Len(reports) = Len(D) - 1
        /\ Frames(OTA_CMD_END) # <<>> => Len(reports) = Len(D)
        /\ (upRet = "False" /\ D # <<>> /\ Frames(OTA_CMD_END) = <<>>)
              => Len(reports) = Len(D) - 1
        /\ \A j \in DOMAIN reports :
            /\ reports[j] = (off(j) * 100) \div S
            /\ reports[j] \in 0..100
            /\ j > 1 => reports[j - 1] <= reports[j]
            /\ reports[j] = 100 <=> j = n

\* 8193 bytes: 49%, 99% and, after the chunk of one byte, 100%
C13_Witness ==
    /\ file_size = 2 * CHUNK_SIZE + 1
    /\ reports = <<49, 99, 100>>

(***************************************************************************)
(* C15.  No protocol activity before open and reset: a frame has been      *)
(* written, or the program stands in sync() or upload_file(), only when    *)
(* the port was opened and the five steps of the reset, the discard of the *)
(* buffered input last, have all been done; when opening or the reset      *)
(* raised, the run is over with no frame written and neither sync() nor    *)
(* upload_file() called.                                                   *)
(***************************************************************************)
C15_OpenAndResetFirst ==
    /\ sent # <<>> => (ser \in {"open", "closed"} /\ resetLog = ResetSteps)
    /\ pc \in (TryPcs \ (ResetPcs \cup {"connect"}))
          => (ser = "open" /\ resetLog = ResetSteps)
    /\ (syncRet # "none" \/ upRet # "none") => resetLog = ResetSteps
    /\ resetLog # ResetSteps
          => (sent = <<>> /\ pc \in ResetPcs \cup {"connect", "finally", "done"})
    /\ ser = "none" => resetLog = <<>>

\* the reset raised after the reset line was asserted
C15_Witness ==
    /\ pc = "done"
    /\ ~interrupted
    /\ ser = "closed"
    /\ resetLog = <<"deassert_both", "assert_reset">>
    /\ sent = <<>>

(***************************************************************************)
(* C16.  Reset sequence order: the steps done so far are always the first  *)
(* ones of: both lines deasserted, reset line (RTS) asserted, reset line   *)
(* deasserted, settle wait, input discard -- so each is done once and in   *)
(* this order; the boot-mode line (DTR) is never asserted, the reset line  *)
(* is asserted only between the second and the third step, and no frame is *)
(* written before the input discard.                                       *)
(***************************************************************************)
C16_ResetOrder ==
    /\ Len(resetLog) <= Len(ResetSteps)
    /\ resetLog = SubSeq(ResetSteps, 1, Len(resetLog))
    /\ IF resetLog = <<>>
       THEN dtr = "unset" /\ rts = "unset"
       ELSE dtr = "False" /\ rts = (IF Len(resetLog) = 2 THEN "True" ELSE "False")
    /\ pc = "reset_lines" => Len(resetLog) = 0
    /\ pc = "reset_assert" => Len(resetLog) = 1
    /\ pc = "reset_release" => Len(resetLog) = 2
    /\ pc = "reset_settle" => Len(resetLog) = 3
    /\ pc = "reset_flush" => Len(resetLog) = 4
    /\ sent # <<>> => resetLog = ResetSteps

\* the first frame goes out after a complete reset
C16_Witness ==
    /\ pc = "sync_wait"
    /\ Len(sent) = 1
    /\ resetLog = ResetSteps
    /\ rts = "False"
    /\ dtr = "False"

(***************************************************************************)
(* C20.  Upload offset: the offset is 0 until a DATA frame is acknowledged *)
(* with status 0, never decreases, changes only on such an acknowledgment  *)
(* and then by the length of the chunk just sent, lies in 0..file size, is *)
(* a multiple of 4096 while below the file size, and equals the file size  *)
(* when END has been written.                                              *)
(***************************************************************************)
C20_OffsetBounds ==
    /\ 0 <= offset
    /\ offset <= file_size
    /\ offset < file_size => offset % CHUNK_SIZE = 0
    /\ Frames(OTA_CMD_END) # <<>> => offset = file_size
    /\ Frames(OTA_CMD_DATA) = <<>> => offset = 0

C20_Offset ==
    [][/\ C20_OffsetBounds
       /\ C20_OffsetBounds'
       /\ offset' >= offset
       /\ offset' # offset =>
            /\ pc = "data_got"
            /\ ack.status = 0
            /\ Last(sent).cmd = OTA_CMD_DATA
            /\ Last(sent).arg = offset
            /\ offset' = offset + Last(sent).len
            /\ sent' = sent]_vars

C20_Witness ==
    /\ file_size = CHUNK_SIZE + 1
    /\ offset = file_size
    /\ Last(sent).cmd = OTA_CMD_END

(***************************************************************************)
(* C19.  The receive buffer is a contiguous suffix: in a receive_ack call  *)
(* the buffer is always what is left of the bytes read so far in the call  *)
(* when some number of them is taken off the front; from one pass of the   *)
(* loop to the next the bytes read only grow at the end and the number     *)
(* taken off the front only grows, by the garbage dropped and the two      *)
(* bytes of a marker whose CRC check failed.                               *)
(***************************************************************************)
C19_IsSuffix ==
    /\ base \in 0..Len(allread)
    /\ discarded <= base
    /\ Len(buffer) = Len(allread) - base
    /\ \A k \in DOMAIN buffer : buffer[k] = allread[base + k]

C19_BufferSuffix ==
    [][/\ C19_IsSuffix
       /\ C19_IsSuffix'
       /\ (pc \in WaitPcs /\ pc' \in WaitPcs \cup {AfterWait(pc)}) =>
            /\ Len(allread') >= Len(allread)
            /\ \A k \in DOMAIN allread : allread'[k] = allread[k]
            /\ base' >= base
            /\ (base' - base) - (discarded' - discarded) \in {0, 2}]_vars

\* one byte of garbage dropped, the damaged frame's marker skipped, and the
\* rest of it still in the buffer
C19_Witness ==
    /\ scen.kind = "crcflip"
    /\ allread = scen.stream
    /\ discarded = 1
    /\ base = 3
    /\ Len(buffer) >= 4
    /\ ack = NoAck

(***************************************************************************)
(* The reference CRC-16/XMODEM: the remainder of the message, taken as a   *)
(* polynomial over GF(2) with the first bit of the first byte as its       *)
(* highest coefficient and multiplied by x^16, divided by                  *)
(* x^16 + x^12 + x^5 + 1 -- computed by long division, a bit at a time,    *)
(* in a 16-bit register that starts at 0.                                  *)
(***************************************************************************)
RefShift(reg, bit) ==
    LET sh == ((reg * 2) + bit) % 65536
    IN  IF reg >= 32768 THEN Xor(sh, 4129) ELSE sh

\* bit number n of a byte, the highest bit being number 0
RefBit(byte, n) == (byte \div Pow2(7 - n)) % 2

\* the eight bits of a byte go through the register, highest bit first
RefByte(reg, byte) ==
    LET r0 == RefShift(reg, RefBit(byte, 0))
        r1 == RefShift(r0, RefBit(byte, 1))
        r2 == RefShift(r1, RefBit(byte, 2))
        r3 == RefShift(r2, RefBit(byte, 3))
        r4 == RefShift(r3, RefBit(byte, 4))
        r5 == RefShift(r4, RefBit(byte, 5))
        r6 == RefShift(r5, RefBit(byte, 6))
    IN  RefShift(r6, RefBit(byte, 7))

\* the bytes of d from number k on
RECURSIVE RefDivide(_, _, _)
RefDivide(reg, d, k) ==
    IF k > Len(d) THEN reg
    ELSE LET r == RefByte(reg, d[k])
         IN  IF r \in Nat THEN RefDivide(r, d, k + 1) ELSE r

\* the message and then 16 zero bits
RefCrc(d) == RefDivide(0, d \o <<0, 0>>, 1)

(***************************************************************************)
(* C17.  CRC conformance: crc16_xmodem returns for every input (the loop   *)
(* takes every byte and then returns), the result lies in 0..65535 and is  *)
(* the reference CRC-16/XMODEM of the input, as is the low 16 bits of the  *)
(* register after each byte for the bytes taken so far; the result is 0    *)
(* for the empty input and 0x31C3 for "123456789".                         *)
(***************************************************************************)
C17_CrcConformance ==
    scen = CrcScen =>
        /\ crcK \in 0..Len(crcData)
        /\ crcReg % 65536 = RefCrc(SubSeq(crcData, 1, crcK))
        /\ crcRet # -1 =>
            /\ crcK = Len(crcData)
            /\ crcRet \in 0..65535
            /\ crcRet = RefCrc(crcData)
            /\ crcRet = crc16_xmodem(crcData)
            /\ crcData = <<>> => crcRet = 0
            /\ crcData = CheckText => crcRet = 12739

C17_Witness ==
    /\ scen = CrcScen
    /\ crcData = CheckText
    /\ crcRet = 12739

(***************************************************************************)
(* C18.  The acknowledgment belongs to its step, as claimed: when a wait   *)
(* has returned an acknowledgment that lets its step go on (any status     *)
(* from 0 up in sync(), status 0 in upload_file()), the frame returned is  *)
(* the device's reply to the command written last, the one the step sent.  *)
(***************************************************************************)
C18_AckBelongsToStep ==
    (/\ pc \in {"sync_got", "start_got", "data_got", "end_got"}
     /\ IF pc = "sync_got" THEN ack.status >= 0 ELSE ack.status = 0)
        => readFor[accPos + 1] = Len(sent)

(***************************************************************************)
(* C12.  The success path is live: in a run in which the firmware file     *)
(* exists and has at least one byte, the port opens, the reset does not    *)
(* fail, the user does not interrupt and every wait that returns returns   *)
(* status 0 (so the device answered inside the timeout), upload_file       *)
(* eventually returns True; and whenever it has returned True for a file   *)
(* of S >= 1 bytes, exactly ceil(S/4096) DATA frames were written and the  *)
(* last progress report is 100.                                            *)
(***************************************************************************)
C12_AllGoesWell ==
    /\ fileExists
    /\ file_size >= 1
    /\ ~interrupted
    /\ pc \in {"finally", "done"} => (resetLog = ResetSteps /\ syncRet = "True")
    /\ ack.status \in {NoAck.status, 0}

C12_Succeeded ==
    (upRet = "True" /\ file_size >= 1) =>
        /\ pc \in {"finally", "done"}
        /\ Len(Frames(OTA_CMD_START)) = 1
        /\ Len(Frames(OTA_CMD_DATA)) = CeilDiv(file_size, 4096)
        /\ Last(sent).cmd = OTA_CMD_END
        /\ offset = file_size
        /\ Last(reports) = 100

C12_SuccessLive ==
    /\ []C12_Succeeded
    /\ ([]C12_AllGoesWell) => <>(upRet = "True")

\* 8192 bytes, every command answered at once: exactly 2 DATA frames
C12_Witness ==
    /\ upRet = "True"
    /\ file_size = 2 * CHUNK_SIZE
    /\ ~interrupted
    /\ Len(sent) = 5
    /\ Len(Frames(OTA_CMD_DATA)) = 2
    /\ reports = <<50, 100>>

(***************************************************************************)
(* C14.  Every wait ends at its deadline: during a receive_ack call the    *)
(* timeout does not change and the time elapsed does not go back, whatever *)
(* arrives and whatever is dropped or skipped; the call returns to its     *)
(* caller either a frame with a correct CRC, before the deadline, or the   *)
(* sentinel (-1, "Timeout"), at the deadline; every wait is left; and      *)
(* every run of the program comes to its end, where, unless the user       *)
(* interrupted it, opening or the reset has failed, sync() has returned    *)
(* False or upload_file() has returned.                                    *)
(***************************************************************************)
C14_Ended ==
    (pc = "done" /\ ~interrupted) =>
        \/ resetLog # ResetSteps
        \/ syncRet = "False"
        \/ upRet \in {"True", "False"}

C14_WaitsTerminate ==
    /\ [][/\ (pc \in WaitPcs /\ pc' = pc) =>
                (timeout' = timeout /\ elapsed' >= elapsed /\ elapsed' <= timeout)
          /\ (pc \in WaitPcs /\ pc' # pc /\ ~interrupted') =>
                /\ pc' = AfterWait(pc)
                /\ \/ ack' = Sentinel /\ elapsed >= timeout
                   \/ /\ ack'.status \in 0..255
                      /\ elapsed < timeout
                      /\ ValidWindowAt(allread', accPos')]_vars
    /\ []C14_Ended
    /\ (pc \in WaitPcs) ~> (pc \notin WaitPcs)
    /\ <>(pc = "done")

\* a wait that took in a false marker and a reply behind it has timed out
C14_Witness ==
    /\ pc = "start_got"
    /\ ack = Sentinel
    /\ Len(allread) > 2
    /\ allread[1] = AckHdr0
    /\ allread[2] = AckHdr1
    /\ readFor[1] = 0
    /\ readFor[3] > 0
    /\ elapsed = StartTimeout

====
